---- MODULE Spec2Model ----
(***************************************************************************)
(* Model of include/PivotControlMessages.h: the DOFPose and DOFBoundaries  *)
(* value types with their comparison and containment predicates, and the   *)
(* PivotController base class with its two readiness flags.                *)
(*                                                                         *)
(* A C++ double is modelled as a record [k, v]:                            *)
(*    k = "num"  : the finite value v (an integer; small integers and      *)
(*                 their sums, differences and products are exact doubles) *)
(*    k = "sqrt" : the non-negative square root of the integer v           *)
(*    k = "pinf", "ninf", "nan" : the IEEE-754 special values (v = 0)      *)
(* Rounding, overflow and underflow of finite values are outside the       *)
(* modelled grid.                                                          *)
(***************************************************************************)
EXTENDS Integers, FiniteSets

VARIABLES
    op,                   \* the operation that acted last ("idle"/"new": none yet)
    ret,                  \* the value that operation returned
    self,                 \* DOFPose: the object a DOFPose method was called on
    other,                \* DOFPose: the argument of ==, != and closeTo
    rotEpsilon,           \* double: argument of closeTo
    transZEpsilon,        \* double: argument of closeTo
    bnd,                  \* DOFBoundaries: the object poseInside was called on
    pose,                 \* DOFPose: the argument of poseInside
    mDofPoseReady,        \* PivotController::mDofPoseReady
    mDofBoundariesReady,  \* PivotController::mDofBoundariesReady
    target,               \* the pose last accepted by setTargetDOFPose
    outPose,              \* output parameter of getCurrentDOFPose
    outBoundaries         \* output parameter of getDOFBoundaries

vars == <<op, ret, self, other, rotEpsilon, transZEpsilon, bnd, pose,
          mDofPoseReady, mDofBoundariesReady, target, outPose, outBoundaries>>

poseVars == <<self, other, rotEpsilon, transZEpsilon>>
insideVars == <<bnd, pose>>
ctrlVars == <<mDofPoseReady, mDofBoundariesReady, target, outPose, outBoundaries>>

----------------------------------------------------------------------------
(* Bounds of the explored inputs.                                          *)

\* rotational coordinates (pitch, yaw, roll) of closeTo's operands: 0..MaxRot
MaxRot == 2
\* transZ coordinates of closeTo's operands: 0..MaxTransZ
MaxTransZ == 1
\* rotEpsilon ranges over -1..MaxRotEps
MaxRotEps == 3
\* transZEpsilon ranges over -1..MaxTransZEps
MaxTransZEps == 2
\* finite coordinates of the operands of == and !=: 0..MaxEqCoord
MaxEqCoord == 1
\* coordinates of poseInside's pose: 0..MaxCoord; its limits: 1 and MaxCoord - 1
MaxCoord == 3
\* coordinates of the poses and limits the controller handles: 0..MaxCtrlCoord
MaxCtrlCoord == 1

----------------------------------------------------------------------------
(* double values and the arithmetic the header uses on them                *)

Num(n) == [k |-> "num", v |-> n]
NaN == [k |-> "nan", v |-> 0]
PInf == [k |-> "pinf", v |-> 0]
NInf == [k |-> "ninf", v |-> 0]

IsNaN(x) == x.k = "nan"

\* sign of a double: -1, 0 or 1 (not used on NaN)
Sign(x) ==
    CASE x.k = "pinf" -> 1
      [] x.k = "ninf" -> -1
      [] x.k = "sqrt" -> IF x.v = 0 THEN 0 ELSE 1
      [] OTHER -> IF x.v > 0 THEN 1 ELSE IF x.v < 0 THEN -1 ELSE 0

\* a - b on doubles (operands are "num" or special)
Sub(a, b) ==
    CASE IsNaN(a) \/ IsNaN(b) -> NaN
      [] a.k = "num" /\ b.k = "num" -> Num(a.v - b.v)
      [] a.k = "pinf" -> IF b.k = "pinf" THEN NaN ELSE PInf
      [] a.k = "ninf" -> IF b.k = "ninf" THEN NaN ELSE NInf
      [] b.k = "pinf" -> NInf
      [] OTHER -> PInf

\* a + b on doubles (operands are "num" or special)
Add(a, b) ==
    CASE IsNaN(a) \/ IsNaN(b) -> NaN
      [] a.k = "num" /\ b.k = "num" -> Num(a.v + b.v)
      [] a.k = "pinf" -> IF b.k = "ninf" THEN NaN ELSE PInf
      [] a.k = "ninf" -> IF b.k = "pinf" THEN NaN ELSE NInf
      [] OTHER -> b

\* a * b on doubles (operands are "num" or special)
Mul(a, b) ==
    CASE IsNaN(a) \/ IsNaN(b) -> NaN
      [] a.k = "num" /\ b.k = "num" -> Num(a.v * b.v)
      [] Sign(a) = 0 \/ Sign(b) = 0 -> NaN
      [] Sign(a) = Sign(b) -> PInf
      [] OTHER -> NInf

\* std::sqrt
Sqrt(x) ==
    CASE IsNaN(x) -> NaN
      [] x.k = "pinf" -> PInf
      [] x.k = "ninf" -> NaN
      [] OTHER -> IF x.v < 0 THEN NaN ELSE [k |-> "sqrt", v |-> x.v]

\* std::abs
Abs(x) ==
    CASE IsNaN(x) -> NaN
      [] x.k \in {"pinf", "ninf"} -> PInf
      [] x.k = "num" -> IF x.v < 0 THEN Num(-x.v) ELSE x
      [] OTHER -> x

\* a < b on finite doubles, a root compared through its square
FinLt(a, b) ==
    CASE a.k = "num" /\ b.k = "num" -> a.v < b.v
      [] a.k = "sqrt" /\ b.k = "num" -> b.v > 0 /\ a.v < b.v * b.v
      [] a.k = "num" /\ b.k = "sqrt" -> a.v < 0 \/ a.v * a.v < b.v
      [] OTHER -> a.v < b.v

\* a < b on doubles: false as soon as one operand is NaN
Lt(a, b) ==
    CASE IsNaN(a) \/ IsNaN(b) -> FALSE
      [] a.k = "pinf" -> FALSE
      [] b.k = "ninf" -> FALSE
      [] a.k = "ninf" -> TRUE
      [] b.k = "pinf" -> TRUE
      [] OTHER -> FinLt(a, b)

\* a == b on doubles: NaN equals nothing, itself included
Eq(a, b) ==
    CASE IsNaN(a) \/ IsNaN(b) -> FALSE
      [] a.k = "sqrt" /\ b.k = "num" -> b.v >= 0 /\ a.v = b.v * b.v
      [] a.k = "num" /\ b.k = "sqrt" -> a.v >= 0 /\ b.v = a.v * a.v
      [] OTHER -> a.k = b.k /\ a.v = b.v

\* a <= b on doubles
Le(a, b) == Lt(a, b) \/ Eq(a, b)

\* a >= b on doubles
Ge(a, b) == Lt(b, a) \/ Eq(b, a)

----------------------------------------------------------------------------
(* DOFPose                                                                 *)

\* struct DOFPose: four doubles
DOFPose(p, y, r, z) == [pitch |-> p, yaw |-> y, roll |-> r, transZ |-> z]

\* a default-constructed DOFPose: every field 0
ZeroPose == DOFPose(Num(0), Num(0), Num(0), Num(0))

\* a mutation of operator==: pitch is compared with the other pose's yaw
Equals_pitchWithYaw(this, o) ==
    /\ Eq(this.pitch, o.yaw)
    /\ Eq(this.yaw, o.yaw)
    /\ Eq(this.roll, o.roll)
    /\ Eq(this.transZ, o.transZ)

\* a mutation of operator==: transZ is not compared
Equals_withoutTransZ(this, o) ==
    /\ Eq(this.pitch, o.pitch)
    /\ Eq(this.yaw, o.yaw)
    /\ Eq(this.roll, o.roll)

\* DOFPose::operator==
Equals(this, o) ==
    /\ Eq(this.pitch, o.pitch)
    /\ Eq(this.yaw, o.yaw)
    /\ Eq(this.roll, o.roll)
    /\ Eq(this.transZ, o.transZ)

\* DOFPose::operator!=
NotEquals(this, o) == ~Equals(this, o)

\* a mutation of closeTo: the two tolerances are joined by || instead of &&
closeTo_either(this, o, rotEps, transZEps) ==
    LET diffPitch == Sub(this.pitch, o.pitch)
        diffYaw == Sub(this.yaw, o.yaw)
        diffRoll == Sub(this.roll, o.roll)
        diffTransZ == Sub(this.transZ, o.transZ)
        rotDist == Sqrt(Add(Add(Mul(diffPitch, diffPitch),
                                Mul(diffYaw, diffYaw)),
                            Mul(diffRoll, diffRoll)))
        transZDist == Abs(diffTransZ)
    IN  Lt(rotDist, rotEps) \/ Lt(transZDist, transZEps)

\* a mutation of closeTo: std::abs is left out
closeTo_withoutAbs(this, o, rotEps, transZEps) ==
    LET diffPitch == Sub(this.pitch, o.pitch)
        diffYaw == Sub(this.yaw, o.yaw)
        diffRoll == Sub(this.roll, o.roll)
        diffTransZ == Sub(this.transZ, o.transZ)
        rotDist == Sqrt(Add(Add(Mul(diffPitch, diffPitch),
                                Mul(diffYaw, diffYaw)),
                            Mul(diffRoll, diffRoll)))
        transZDist == diffTransZ
    IN  Lt(rotDist, rotEps) /\ Lt(transZDist, transZEps)

\* a mutation of closeTo: <= instead of <
closeTo_inclusive(this, o, rotEps, transZEps) ==
    LET diffPitch == Sub(this.pitch, o.pitch)
        diffYaw == Sub(this.yaw, o.yaw)
        diffRoll == Sub(this.roll, o.roll)
        diffTransZ == Sub(this.transZ, o.transZ)
        rotDist == Sqrt(Add(Add(Mul(diffPitch, diffPitch),
                                Mul(diffYaw, diffYaw)),
                            Mul(diffRoll, diffRoll)))
        transZDist == Abs(diffTransZ)
    IN  Le(rotDist, rotEps) /\ Le(transZDist, transZEps)

\* DOFPose::closeTo
closeTo(this, o, rotEps, transZEps) ==
    LET diffPitch == Sub(this.pitch, o.pitch)
        diffYaw == Sub(this.yaw, o.yaw)
        diffRoll == Sub(this.roll, o.roll)
        diffTransZ == Sub(this.transZ, o.transZ)
        rotDist == Sqrt(Add(Add(Mul(diffPitch, diffPitch),
                                Mul(diffYaw, diffYaw)),
                            Mul(diffRoll, diffRoll)))
        transZDist == Abs(diffTransZ)
    IN  Lt(rotDist, rotEps) /\ Lt(transZDist, transZEps)

----------------------------------------------------------------------------
(* DOFBoundaries                                                           *)

\* struct DOFBoundaries: eight doubles
DOFBoundaries(pMin, pMax, yMin, yMax, rMin, rMax, zMin, zMax) ==
    [pitchMax |-> pMax, pitchMin |-> pMin, yawMax |-> yMax, yawMin |-> yMin,
     rollMax |-> rMax, rollMin |-> rMin, transZMax |-> zMax, transZMin |-> zMin]

\* a default-constructed DOFBoundaries: every limit 0
ZeroBoundaries ==
    DOFBoundaries(Num(0), Num(0), Num(0), Num(0), Num(0), Num(0), Num(0), Num(0))

\* a mutation of poseInside: the upper pitch limit is exclusive
poseInside_exclusiveMax(this, p) ==
    /\ Ge(p.pitch, this.pitchMin)
    /\ Lt(p.pitch, this.pitchMax)
    /\ Ge(p.yaw, this.yawMin)
    /\ Le(p.yaw, this.yawMax)
    /\ Ge(p.roll, this.rollMin)
    /\ Le(p.roll, this.rollMax)
    /\ Ge(p.transZ, this.transZMin)
    /\ Le(p.transZ, this.transZMax)

\* a mutation of poseInside: one of the two roll limits is enough
poseInside_rollEither(this, p) ==
    /\ Ge(p.pitch, this.pitchMin)
    /\ Le(p.pitch, this.pitchMax)
    /\ Ge(p.yaw, this.yawMin)
    /\ Le(p.yaw, this.yawMax)
    /\ (Ge(p.roll, this.rollMin) \/ Le(p.roll, this.rollMax))
    /\ Ge(p.transZ, this.transZMin)
    /\ Le(p.transZ, this.transZMax)

\* DOFBoundaries::poseInside
poseInside(this, p) ==
    /\ Ge(p.pitch, this.pitchMin)
    /\ Le(p.pitch, this.pitchMax)
    /\ Ge(p.yaw, this.yawMin)
    /\ Le(p.yaw, this.yawMax)
    /\ Ge(p.roll, this.rollMin)
    /\ Le(p.roll, this.rollMax)
    /\ Ge(p.transZ, this.transZMin)
    /\ Le(p.transZ, this.transZMax)

----------------------------------------------------------------------------
(* The inputs the operations are called with                               *)

PoseFields == {"pitch", "yaw", "roll", "transZ"}
LimitFields == {"pitchMax", "pitchMin", "yawMax", "yawMin",
                "rollMax", "rollMin", "transZMax", "transZMin"}
Specials == {NaN, PInf, NInf}

Nums(lo, hi) == {Num(n) : n \in lo..hi}

\* the poses and boundaries with one field not finite
SpecialPoses == {[ZeroPose EXCEPT ![f] = s] : f \in PoseFields, s \in Specials}
SpecialBoundaries ==
    {[ZeroBoundaries EXCEPT ![f] = s] : f \in LimitFields, s \in Specials}

\* closeTo's operands and tolerances
RotValues == Nums(0, MaxRot)
TransZValues == Nums(0, MaxTransZ)
CloseToPoses ==
    {DOFPose(p, y, r, z) : p \in RotValues, y \in RotValues,
                           r \in RotValues, z \in TransZValues}
        \cup SpecialPoses
RotEpsilons == Nums(-1, MaxRotEps)
TransZEpsilons == Nums(-1, MaxTransZEps)

\* the operands of == and !=
EqValues == Nums(0, MaxEqCoord) \cup {NaN, PInf}
EqPoses ==
    {DOFPose(p, y, r, z) : p \in EqValues, y \in EqValues,
                           r \in EqValues, z \in EqValues}

\* the operands of p == p and p.closeTo(p, e, d)
ReflEpsilons == Nums(-1, MaxRotEps) \cup {NaN, PInf}

\* poseInside's pose and boundaries
CoordValues == Nums(0, MaxCoord)
LimitValues == {Num(1), Num(MaxCoord - 1)}
InsidePoses ==
    {DOFPose(p, y, r, z) : p \in CoordValues, y \in CoordValues,
                           r \in CoordValues, z \in CoordValues}
        \cup SpecialPoses
InsideBoundaries ==
    {DOFBoundaries(a, b, c, d, e, f, g, h) :
        a \in LimitValues, b \in LimitValues, c \in LimitValues,
        d \in LimitValues, e \in LimitValues, f \in LimitValues,
        g \in LimitValues, h \in LimitValues}
        \cup SpecialBoundaries

\* what the controller's backend reads and accepts
CtrlPoses == {[ZeroPose EXCEPT !.pitch = v] : v \in Nums(0, MaxCtrlCoord)}
CtrlBoundaries ==
    {[ZeroBoundaries EXCEPT !.pitchMax = v] : v \in Nums(0, MaxCtrlCoord)}

----------------------------------------------------------------------------
(* State before any call                                                   *)

PoseIdle ==
    /\ self = ZeroPose
    /\ other = ZeroPose
    /\ rotEpsilon = Num(0)
    /\ transZEpsilon = Num(0)

InsideIdle ==
    /\ bnd = ZeroBoundaries
    /\ pose = ZeroPose

\* a PivotController right after construction
CtrlNew ==
    /\ mDofPoseReady = FALSE
    /\ mDofBoundariesReady = FALSE
    /\ target = ZeroPose
    /\ outPose = ZeroPose
    /\ outBoundaries = ZeroBoundaries

\* no call yet on the value types
InitValues ==
    /\ op = "idle"
    /\ ret = FALSE
    /\ PoseIdle
    /\ InsideIdle
    /\ CtrlNew

\* a newly constructed controller
Init ==
    /\ op = "new"
    /\ ret = FALSE
    /\ PoseIdle
    /\ InsideIdle
    /\ CtrlNew

----------------------------------------------------------------------------
(* Calls on the value types                                                *)

\* p == q
CallEquals(p, q) ==
    /\ op' = "=="
    /\ self' = p
    /\ other' = q
    /\ ret' = Equals(p, q)
    /\ UNCHANGED <<rotEpsilon, transZEpsilon, insideVars, ctrlVars>>

\* p != q
CallNotEquals(p, q) ==
    /\ op' = "!="
    /\ self' = p
    /\ other' = q
    /\ ret' = NotEquals(p, q)
    /\ UNCHANGED <<rotEpsilon, transZEpsilon, insideVars, ctrlVars>>

\* p.closeTo(q, e, d)
CallCloseTo(p, q, e, d) ==
    /\ op' = "closeTo"
    /\ self' = p
    /\ other' = q
    /\ rotEpsilon' = e
    /\ transZEpsilon' = d
    /\ ret' = closeTo(p, q, e, d)
    /\ UNCHANGED <<insideVars, ctrlVars>>

\* b.poseInside(p)
CallPoseInside(b, p) ==
    /\ op' = "poseInside"
    /\ bnd' = b
    /\ pose' = p
    /\ ret' = poseInside(b, p)
    /\ UNCHANGED <<poseVars, ctrlVars>>

NextEq ==
    /\ op = "idle"
    /\ \/ \E p \in EqPoses, q \in EqPoses : CallEquals(p, q)
       \/ \E p \in EqPoses, q \in EqPoses : CallNotEquals(p, q)

NextCloseTo ==
    /\ op = "idle"
    /\ \E p \in CloseToPoses, q \in CloseToPoses,
          e \in RotEpsilons, d \in TransZEpsilons : CallCloseTo(p, q, e, d)

NextInside ==
    /\ op = "idle"
    /\ \E b \in InsideBoundaries, p \in InsidePoses : CallPoseInside(b, p)

SpecEq == InitValues /\ [][NextEq]_vars
SpecCloseTo == InitValues /\ [][NextCloseTo]_vars
SpecInside == InitValues /\ [][NextInside]_vars

NextRefl ==
    /\ op = "idle"
    /\ \/ \E p \in EqPoses : CallEquals(p, p)
       \/ \E p \in EqPoses, e \in ReflEpsilons, d \in ReflEpsilons :
             CallCloseTo(p, p, e, d)

SpecRefl == InitValues /\ [][NextRefl]_vars

----------------------------------------------------------------------------
(* PivotController                                                         *)

\* a mutation of isReady: the pose flag is not consulted
isReady_ignoresPose == mDofBoundariesReady

\* a mutation of isReady: one flag is enough
isReady_either == mDofBoundariesReady \/ mDofPoseReady

\* PivotController::isReady
isReady == mDofBoundariesReady /\ mDofPoseReady

\* a call of isReady(): const, it writes nothing
CallIsReady ==
    /\ op' = "isReady"
    /\ ret' = isReady
    /\ UNCHANGED <<poseVars, insideVars, ctrlVars>>

\* setTargetDOFPose of a backend: the pose is accepted or refused, the flags
\* are not touched
setTargetDOFPose(p, success) ==
    /\ op' = "setTargetDOFPose"
    /\ ret' = success
    /\ target' = IF success THEN p ELSE target
    /\ UNCHANGED <<mDofPoseReady, mDofBoundariesReady, outPose, outBoundaries>>
    /\ UNCHANGED <<poseVars, insideVars>>

\* a mutation of getCurrentDOFPose: the flag follows the last read
getCurrentDOFPose_flagFollowsRead(p, success) ==
    /\ op' = "getCurrentDOFPose"
    /\ ret' = success
    /\ outPose' = p
    /\ mDofPoseReady' = success
    /\ UNCHANGED <<mDofBoundariesReady, target, outBoundaries>>
    /\ UNCHANGED <<poseVars, insideVars>>

\* getCurrentDOFPose of a backend: p is what the call leaves in the output
\* parameter (unspecified when the read fails); the first successful read sets
\* mDofPoseReady
getCurrentDOFPose(p, success) ==
    /\ op' = "getCurrentDOFPose"
    /\ ret' = success
    /\ outPose' = p
    /\ mDofPoseReady' = (mDofPoseReady \/ success)
    /\ UNCHANGED <<mDofBoundariesReady, target, outBoundaries>>
    /\ UNCHANGED <<poseVars, insideVars>>

\* getDOFBoundaries of a backend: b is what the call leaves in the output
\* parameter; the first successful read sets mDofBoundariesReady
getDOFBoundaries(b, success) ==
    /\ op' = "getDOFBoundaries"
    /\ ret' = success
    /\ outBoundaries' = b
    /\ mDofBoundariesReady' = (mDofBoundariesReady \/ success)
    /\ UNCHANGED <<mDofPoseReady, target, outPose>>
    /\ UNCHANGED <<poseVars, insideVars>>

Next ==
    \/ CallIsReady
    \/ \E p \in CtrlPoses, success \in BOOLEAN : setTargetDOFPose(p, success)
    \/ \E p \in CtrlPoses, success \in BOOLEAN : getCurrentDOFPose(p, success)
    \/ \E b \in CtrlBoundaries, success \in BOOLEAN : getDOFBoundaries(b, success)

Spec == Init /\ [][Next]_vars

----------------------------------------------------------------------------
(* What the properties are stated with: numbers, independent of the        *)
(* double arithmetic above                                                 *)

HasNaN(p) == \E f \in PoseFields : p[f].k = "nan"
AllNum(p) == \A f \in PoseFields : p[f].k = "num"
Positive(x) == x.k = "pinf" \/ (x.k = "num" /\ x.v > 0)
NotPositive(x) == x.k = "ninf" \/ (x.k = "num" /\ x.v <= 0)

\* a <= b in the extended reals; NaN is in no order relation
ExtLe(a, b) ==
    /\ a.k # "nan"
    /\ b.k # "nan"
    /\ \/ a.k = "ninf"
       \/ b.k = "pinf"
       \/ a.k = "num" /\ b.k = "num" /\ a.v <= b.v

InRange(lo, x, hi) == ExtLe(lo, x) /\ ExtLe(x, hi)

AxisInside(b, p) ==
    /\ InRange(b.pitchMin, p.pitch, b.pitchMax)
    /\ InRange(b.yawMin, p.yaw, b.yawMax)
    /\ InRange(b.rollMin, p.roll, b.rollMax)
    /\ InRange(b.transZMin, p.transZ, b.transZMax)

\* min > max on the axis with limits lo, hi
Inverted(lo, hi) == lo.k # "nan" /\ hi.k # "nan" /\ lo # hi /\ ExtLe(hi, lo)

Degenerate(b) ==
    \/ Inverted(b.pitchMin, b.pitchMax)
    \/ Inverted(b.yawMin, b.yawMax)
    \/ Inverted(b.rollMin, b.rollMax)
    \/ Inverted(b.transZMin, b.transZMax)

\* squared rotational distance and transZ distance of two finite poses
Square(n) == n * n
RotDistSquared(p, q) ==
    Square(p.pitch.v - q.pitch.v) + Square(p.yaw.v - q.yaw.v)
        + Square(p.roll.v - q.roll.v)
TransZDistance(p, q) ==
    IF p.transZ.v >= q.transZ.v THEN p.transZ.v - q.transZ.v
                                ELSE q.transZ.v - p.transZ.v

FieldsDiffering(p, q) == {f \in PoseFields : p[f] # q[f]}

----------------------------------------------------------------------------
(* Properties                                                              *)

\* C1: isReady() returns true exactly when both readiness flags are true:
\* it returns false for (false,false), (true,false) and (false,true) and
\* true for (true,true).
C1_IsReadyTruthTable ==
    op = "isReady" =>
        /\ (~mDofPoseReady /\ ~mDofBoundariesReady) => ret = FALSE
        /\ (mDofPoseReady /\ ~mDofBoundariesReady) => ret = FALSE
        /\ (~mDofPoseReady /\ mDofBoundariesReady) => ret = FALSE
        /\ (mDofPoseReady /\ mDofBoundariesReady) => ret = TRUE

C1_Witness ==
    op = "isReady" /\ mDofPoseReady /\ mDofBoundariesReady /\ ret = TRUE

\* C2: a newly constructed controller has both flags false, and after any
\* sequence of calls isReady() returns false whenever the pose flag or the
\* boundaries flag is not set.
C2_NotReadyUntilBothSet ==
    /\ op = "new" => (~mDofPoseReady /\ ~mDofBoundariesReady)
    /\ (op = "isReady" /\ (~mDofPoseReady \/ ~mDofBoundariesReady))
          => ret = FALSE

C2_Witness ==
    op = "isReady" /\ mDofPoseReady # mDofBoundariesReady /\ ret = FALSE

\* C3: each readiness flag only goes from false to true and is never reset,
\* so isReady, once true, is true in every later state.
C3_FlagsMonotonic ==
    [][/\ mDofPoseReady => mDofPoseReady'
       /\ mDofBoundariesReady => mDofBoundariesReady'
       /\ isReady => isReady']_vars

\* a read failed while the controller was ready, and it is still ready
C3_Witness ==
    /\ op \in {"getCurrentDOFPose", "getDOFBoundaries"}
    /\ ret = FALSE
    /\ mDofPoseReady
    /\ mDofBoundariesReady

\* C4: poseInside is true iff each of the four coordinates lies in its own
\* axis range, both ends included.
C4_PoseInsideInclusive ==
    op = "poseInside" => ret = AxisInside(bnd, pose)

\* inside, with the pitch on its upper limit and the yaw on its lower limit
C4_Witness ==
    /\ op = "poseInside"
    /\ ret = TRUE
    /\ bnd.pitchMin # bnd.pitchMax
    /\ pose.pitch = bnd.pitchMax
    /\ bnd.yawMin # bnd.yawMax
    /\ pose.yaw = bnd.yawMin

C6_CloseToSymmetric ==
    op = "closeTo" =>
        ret = closeTo(other, self, rotEpsilon, transZEpsilon)

\* close poses that differ in transZ and in a rotation
C6_Witness ==
    /\ op = "closeTo"
    /\ AllNum(self)
    /\ AllNum(other)
    /\ self.transZ.v < other.transZ.v
    /\ self.pitch.v > other.pitch.v
    /\ ret = TRUE

\* C7 as stated: for every pose p, p == p is true and p.closeTo(p, e, d) is
\* true for every e > 0 and d > 0.
C7_ReflexiveForEveryPose ==
    /\ (op = "==" /\ other = self) => ret = TRUE
    /\ (op = "closeTo" /\ other = self
            /\ Positive(rotEpsilon) /\ Positive(transZEpsilon))
          => ret = TRUE

\* C7 amended: p == p is true for every pose p with no NaN field, and
\* p.closeTo(p, e, d) is true for every pose p with finite fields and every
\* e > 0 and d > 0.
C7_ReflexiveOnNumbers ==
    /\ (op = "==" /\ other = self /\ ~HasNaN(self)) => ret = TRUE
    /\ (op = "closeTo" /\ other = self /\ AllNum(self)
            /\ Positive(rotEpsilon) /\ Positive(transZEpsilon))
          => ret = TRUE

\* a pose with different finite coordinates is close to itself
C7_Witness ==
    /\ op = "closeTo"
    /\ other = self
    /\ AllNum(self)
    /\ self.pitch # self.yaw
    /\ rotEpsilon = Num(1)
    /\ transZEpsilon = Num(1)
    /\ ret = TRUE

\* C8 as stated: p == q is true iff the four fields are pairwise the same,
\* and p != q is the negation of p == q.
C8_EqualIffSameFields ==
    /\ op = "==" => ret = (FieldsDiffering(self, other) = {})
    /\ op = "!=" => ret = ~Equals(self, other)

\* C8 amended: for poses with no NaN field, p == q is true iff the four
\* fields are pairwise the same; p != q is always the negation of p == q.
C8_EqualIffSameNumbers ==
    /\ (op = "==" /\ ~HasNaN(self) /\ ~HasNaN(other))
          => ret = (FieldsDiffering(self, other) = {})
    /\ (op = "!=" /\ ~HasNaN(self) /\ ~HasNaN(other))
          => ret = (FieldsDiffering(self, other) # {})
    /\ op = "!=" => ret = ~Equals(self, other)

\* poses that differ in transZ alone are not equal
C8_Witness ==
    /\ op = "=="
    /\ ~HasNaN(self)
    /\ ~HasNaN(other)
    /\ FieldsDiffering(self, other) = {"transZ"}
    /\ ret = FALSE

\* C9: with min > max on at least one axis, poseInside is false for every
\* pose.
C9_DegenerateContainsNothing ==
    (op = "poseInside" /\ Degenerate(bnd)) => ret = FALSE

\* only the roll axis is inverted, the other three contain the pose
C9_Witness ==
    /\ op = "poseInside"
    /\ Inverted(bnd.rollMin, bnd.rollMax)
    /\ InRange(bnd.rollMax, pose.roll, bnd.rollMin)
    /\ InRange(bnd.pitchMin, pose.pitch, bnd.pitchMax)
    /\ InRange(bnd.yawMin, pose.yaw, bnd.yawMax)
    /\ InRange(bnd.transZMin, pose.transZ, bnd.transZMax)
    /\ ret = FALSE

\* C10: with rotEpsilon <= 0 or transZEpsilon <= 0, closeTo is false for
\* every pair of poses, a pose compared with itself included.
C10_NonPositiveEpsilon ==
    (op = "closeTo" /\ (NotPositive(rotEpsilon) \/ NotPositive(transZEpsilon)))
        => ret = FALSE

\* a pose compared with itself under a zero rotEpsilon
C10_Witness ==
    /\ op = "closeTo"
    /\ other = self
    /\ AllNum(self)
    /\ rotEpsilon = Num(0)
    /\ Positive(transZEpsilon)
    /\ ret = FALSE

====
